---- MODULE Spec2Model ----
(***************************************************************************)
(* Model of examples/lstm_stateful.py: the data pipeline (generate, moving *)
(* average, rolling window view, drop, split) and the order of the calls   *)
(* the script makes on the two Keras models.                               *)
(*                                                                         *)
(* Numbers.  A real value is a pair <<num, den>> standing for num/den; a   *)
(* sample v is <<v, 1>>, a mean over w samples is <<sum, w>>, and NaN is   *)
(* the pair <<0, 0>>.  Samples are measured in units of amp.               *)
(*                                                                         *)
(* Frames.  A pandas DataFrame is [index, values]: index is the sequence   *)
(* of row labels (0-based, as pandas numbers them), values the sequence of *)
(* rows, each row a sequence of column values.  TLA+ sequences are 1-based *)
(* so the row at Python position p is values[p + 1].                       *)
(***************************************************************************)
EXTENDS Integers, Sequences, FiniteSets, TLC

\* ---- bounds of the model -------------------------------------------------
MaxInputLen == 5
MaxTsteps == 2
MaxLahead == 2
MaxBatchSize == 2
MaxEpochs == 2

\* values of the ratio argument of split_data, as <<numerator, denominator>>;
\* <<4, 5>> is the default 0.8 the script uses
DefaultRatio == <<4, 5>>
Ratios == {<<-1, 2>>, <<3, 5>>, DefaultRatio, <<1, 1>>, <<3, 2>>}

VARIABLES
    input_len, tsteps, lahead, batch_size, epochs,  \* editable parameters
    ratio,              \* the ratio argument split_data was called with
    pc,                 \* position of the script
    to_drop,
    generated,          \* history: the samples gen_uniform_amp returned
    data_input, expected_output,
    model_stateful, model_stateless,
    x_train, y_train, x_test, y_test,
    i,                  \* loop variable of the training loop
    predicted_stateful, predicted_stateless,
    calls               \* history: the calls made on the two models, in order

params == <<input_len, tsteps, lahead, batch_size, epochs>>
data == <<to_drop, generated, data_input, expected_output>>
split == <<ratio, x_train, y_train, x_test, y_test>>
models == <<model_stateful, model_stateless, i, predicted_stateful,
            predicted_stateless, calls>>
vars == <<params, pc, data, split, models>>

\* ---- numbers and Python helpers -------------------------------------------
NaN == <<0, 0>>
Num(v) == <<v, 1>>
IsNaN(v) == v[2] = 0

Max(a, b) == IF a >= b THEN a ELSE b
Min(a, b) == IF a <= b THEN a ELSE b

\* int(n * ratio): Python's int() truncates toward zero
IntOfProduct(n, r) ==
    LET p == n * r[1]
    IN IF p >= 0 THEN p \div r[2] ELSE -((-p) \div r[2])

\* a slice bound k on a sequence of length n: negative bounds count from the
\* end, and bounds outside the sequence are clamped
SliceBound(n, k) == IF k < 0 THEN Max(n + k, 0) ELSE Min(k, n)

\* s[a:] and s[:b]
SliceFrom(s, a) == SubSeq(s, SliceBound(Len(s), a) + 1, Len(s))
SliceTo(s, b) == SubSeq(s, 1, SliceBound(Len(s), b))

\* df[a:] and df[:b] on a frame: rows by position, labels kept
FrameFrom(df, a) ==
    [index |-> SliceFrom(df.index, a), values |-> SliceFrom(df.values, a)]
FrameTo(df, b) ==
    [index |-> SliceTo(df.index, b), values |-> SliceTo(df.values, b)]

\* pd.DataFrame(data) of a flat array: one column, labels 0..n-1
DataFrame(s) ==
    [index |-> [k \in 1..Len(s) |-> k - 1],
     values |-> [k \in 1..Len(s) |-> <<Num(s[k])>>]]

EmptyFrame == [index |-> <<>>, values |-> <<>>]
Shape0(df) == Len(df.values)

RECURSIVE SumCol(_, _, _)
\* sum of the numerators of column 1 of rows lo..hi
SumCol(values, lo, hi) ==
    IF lo > hi THEN 0 ELSE values[hi][1][1] + SumCol(values, lo, hi - 1)


\* ---- the data pipeline ------------------------------------------------------
\* np.random.uniform(-amp, +amp, xn): any array of xn samples of the interval;
\* the model draws each sample from its two ends
gen_uniform_amp(amp, xn) == [1..xn -> {-amp, amp}]

ToDropTstepsOnly(t, l) == t - 1
\* to_drop = max(tsteps - 1, lahead - 1)
ToDrop(t, l) == Max(t - 1, l - 1)

GeneratedLenNoPad(n, d) == n
\* xn = input_len + to_drop
GeneratedLen(n, d) == n + d

rolling_mean_min_periods_1(df, window) ==
    [index |-> df.index,
     values |-> [k \in 1..Shape0(df) |->
                    <<<<SumCol(df.values, Max(k - window + 1, 1), k),
                        Min(k, window)>>>>]]
rolling_sum(df, window) ==
    [index |-> df.index,
     values |-> [k \in 1..Shape0(df) |->
                    <<IF k < window THEN NaN
                      ELSE <<SumCol(df.values, k - window + 1, k), 1>>>>]]
\* df.rolling(window=window, center=False).mean() of a one-column frame: the
\* mean of the window rows ending at each row, NaN while the window is short
rolling_mean(df, window) ==
    [index |-> df.index,
     values |-> [k \in 1..Shape0(df) |->
                    <<IF k < window THEN NaN
                      ELSE <<SumCol(df.values, k - window + 1, k), window>>>>]]

\* np.repeat(values, repeats, axis=1): every element of a row, repeats times
repeat(values, repeats) ==
    [k \in 1..Len(values) |->
        [j \in 1..(Len(values[k]) * repeats) |->
            values[k][((j - 1) \div repeats) + 1]]]

\* column c of values moved down by periods rows, NaN at the top
shift(values, c, periods) ==
    [k \in 1..Len(values) |->
        IF k <= periods THEN NaN ELSE values[k - periods][c]]

rolling_window_view_ascending(df, n) ==
    LET rep == repeat(df.values, n)
    IN [index |-> [k \in 1..Len(rep) |-> k - 1],
        values |-> [k \in 1..Len(rep) |->
                       [c \in 1..n |-> shift(rep, c, n - c)[k]]]]
\* np.repeat, pd.DataFrame, then column number c (from 0) shifted by c
rolling_window_view(df, n) ==
    LET rep == repeat(df.values, n)
    IN [index |-> [k \in 1..Len(rep) |-> k - 1],
        values |-> [k \in 1..Len(rep) |->
                       [c \in 1..n |-> shift(rep, c, c - 1)[k]]]]

\* ---- split_data ---------------------------------------------------------------
ToTrainNoTweak(n, r, b) == IntOfProduct(n, r)
\* to_train = int(input_len * ratio); to_train -= to_train % batch_size
ToTrain(n, r, b) ==
    LET t == IntOfProduct(n, r) IN t - (t % b)

TruncateTestNoGuard(test, d) == FrameTo(test, -1 * d)
\* if to_drop > 0: x_test = x_test[:-1 * to_drop]
TruncateTest(test, d) == IF d > 0 THEN FrameTo(test, -1 * d) ELSE test

\* x.values.reshape((x.shape[0], x.shape[1], 1))
reshape_3(df) ==
    [k \in 1..Shape0(df) |-> [c \in 1..Len(df.values[k]) |-> <<df.values[k][c]>>]]
\* x.values.reshape((x.shape[0], 1))
reshape_2(df) == [k \in 1..Shape0(df) |-> <<df.values[k][1]>>]

\* split_data(x, y, ratio); input_len and batch_size are the script's globals
split_data(x, y, r) ==
    LET to_train == ToTrain(input_len, r, batch_size)
        drop == Shape0(x) % batch_size
    IN [x_train |-> reshape_3(FrameTo(x, to_train)),
        y_train |-> reshape_2(FrameTo(y, to_train)),
        x_test |-> reshape_3(TruncateTest(FrameFrom(x, to_train), drop)),
        y_test |-> reshape_2(TruncateTest(FrameFrom(y, to_train), drop))]

\* ---- the Keras models, as far as the script can tell ----------------------------
NoModel == [built |-> FALSE, stateful |-> FALSE, fits |-> 0, state |-> FALSE]
\* create_model(stateful): a compiled model, not yet fitted, no carried state
create_model(stateful) ==
    [built |-> TRUE, stateful |-> stateful, fits |-> 0, state |-> FALSE]
\* model.fit(...): a stateful model keeps the state of its last batch
fit(m) == [m EXCEPT !.fits = @ + 1, !.state = m.stateful]
\* model.reset_states()
reset_states(m) == [m EXCEPT !.state = FALSE]
\* model.predict(x, batch_size): one output row per input row
predict(m, x) == [k \in 1..Len(x) |-> <<"y">>]

\* ---- initial states -------------------------------------------------------------
Unassigned ==
    /\ pc = "generate"
    /\ ratio = DefaultRatio
    /\ to_drop = 0
    /\ generated = <<>>
    /\ data_input = EmptyFrame
    /\ expected_output = EmptyFrame
    /\ model_stateful = NoModel
    /\ model_stateless = NoModel
    /\ x_train = <<>>
    /\ y_train = <<>>
    /\ x_test = <<>>
    /\ y_test = <<>>
    /\ i = 0
    /\ predicted_stateful = <<>>
    /\ predicted_stateless = <<>>
    /\ calls = <<>>

\* the editable parameters, over the bounds
Init ==
    /\ input_len \in 0..MaxInputLen
    /\ tsteps \in 1..MaxTsteps
    /\ lahead \in 1..MaxLahead
    /\ batch_size \in 1..MaxBatchSize
    /\ epochs \in 0..MaxEpochs
    /\ Unassigned

\* the scenario input_len=10, tsteps=2, lahead=1, batch_size=1
ScenarioInit ==
    /\ input_len = 10
    /\ tsteps = 2
    /\ lahead = 1
    /\ batch_size = 1
    /\ epochs \in 1..MaxEpochs
    /\ Unassigned

\* ---- the script, statement by statement -----------------------------------------
\* lines 120-121
Generate ==
    /\ pc = "generate"
    /\ to_drop' = ToDrop(tsteps, lahead)
    /\ \E s \in gen_uniform_amp(1, GeneratedLen(input_len, to_drop')) :
          /\ generated' = s
          /\ data_input' = DataFrame(s)
    /\ pc' = "rolling"
    /\ UNCHANGED <<params, expected_output, split, models>>

\* line 124
MovingAverage ==
    /\ pc = "rolling"
    /\ expected_output' = rolling_mean(data_input, tsteps)
    /\ pc' = "window"
    /\ UNCHANGED <<params, to_drop, generated, data_input, split, models>>

\* lines 128-132
RollingWindowView ==
    /\ pc = "window"
    /\ data_input' = IF lahead > 1 THEN rolling_window_view(data_input, lahead)
                     ELSE data_input
    /\ pc' = "drop"
    /\ UNCHANGED <<params, to_drop, generated, expected_output, split, models>>

DropNanEachOwn ==
    /\ pc = "drop"
    /\ expected_output' = FrameFrom(expected_output, tsteps - 1)
    /\ data_input' = FrameFrom(data_input, lahead - 1)
    /\ pc' = "create_stateful"
    /\ UNCHANGED <<params, to_drop, generated, split, models>>
\* lines 135-136
DropNan ==
    /\ pc = "drop"
    /\ expected_output' = FrameFrom(expected_output, to_drop)
    /\ data_input' = FrameFrom(data_input, to_drop)
    /\ pc' = "create_stateful"
    /\ UNCHANGED <<params, to_drop, generated, split, models>>

\* line 169
CreateStateful ==
    /\ pc = "create_stateful"
    /\ model_stateful' = create_model(TRUE)
    /\ calls' = Append(calls, <<"stateful", "create">>)
    /\ pc' = "split"
    /\ UNCHANGED <<params, data, split, model_stateless, i,
                   predicted_stateful, predicted_stateless>>

\* line 201, for any value of the ratio argument (the script leaves it at its
\* default)
SplitData ==
    /\ pc = "split"
    /\ \E r \in Ratios :
          LET s == split_data(data_input, expected_output, r)
          IN /\ ratio' = r
             /\ x_train' = s.x_train
             /\ y_train' = s.y_train
             /\ x_test' = s.x_test
             /\ y_test' = s.y_test
    /\ i' = 0
    /\ pc' = "loop"
    /\ UNCHANGED <<params, data, model_stateful, model_stateless,
                   predicted_stateful, predicted_stateless, calls>>

\* lines 208-223: the loop takes its next i and fits
FitStateful ==
    /\ pc = "loop"
    /\ i < epochs
    /\ model_stateful' = fit(model_stateful)
    /\ calls' = Append(calls, <<"stateful", "fit">>)
    /\ pc' = "reset"
    /\ UNCHANGED <<params, data, split, model_stateless, i,
                   predicted_stateful, predicted_stateless>>

ResetStatesSkipped ==
    /\ pc = "reset"
    /\ i' = i + 1
    /\ pc' = "loop"
    /\ UNCHANGED <<params, data, split, model_stateful, model_stateless,
                   predicted_stateful, predicted_stateless, calls>>
\* line 224
ResetStates ==
    /\ pc = "reset"
    /\ model_stateful' = reset_states(model_stateful)
    /\ calls' = Append(calls, <<"stateful", "reset_states">>)
    /\ i' = i + 1
    /\ pc' = "loop"
    /\ UNCHANGED <<params, data, split, model_stateless,
                   predicted_stateful, predicted_stateless>>

\* line 227, once range(epochs) is exhausted
PredictStateful ==
    /\ pc = "loop"
    /\ i >= epochs
    /\ predicted_stateful' = predict(model_stateful, x_test)
    /\ calls' = Append(calls, <<"stateful", "predict">>)
    /\ pc' = "create_stateless"
    /\ UNCHANGED <<params, data, split, model_stateful, model_stateless, i,
                   predicted_stateless>>

\* line 230
CreateStateless ==
    /\ pc = "create_stateless"
    /\ model_stateless' = create_model(FALSE)
    /\ calls' = Append(calls, <<"stateless", "create">>)
    /\ pc' = "fit_stateless"
    /\ UNCHANGED <<params, data, split, model_stateful, i,
                   predicted_stateful, predicted_stateless>>

\* lines 233-239
FitStateless ==
    /\ pc = "fit_stateless"
    /\ model_stateless' = fit(model_stateless)
    /\ calls' = Append(calls, <<"stateless", "fit">>)
    /\ pc' = "predict_stateless"
    /\ UNCHANGED <<params, data, split, model_stateful, i,
                   predicted_stateful, predicted_stateless>>

\* line 242
PredictStateless ==
    /\ pc = "predict_stateless"
    /\ predicted_stateless' = predict(model_stateless, x_test)
    /\ calls' = Append(calls, <<"stateless", "predict">>)
    /\ pc' = "done"
    /\ UNCHANGED <<params, data, split, model_stateful, model_stateless, i,
                   predicted_stateful>>

Next ==
    \/ Generate
    \/ MovingAverage
    \/ RollingWindowView
    \/ DropNan
    \/ CreateStateful
    \/ SplitData
    \/ FitStateful
    \/ ResetStates
    \/ PredictStateful
    \/ CreateStateless
    \/ FitStateless
    \/ PredictStateless

Spec == Init /\ [][Next]_vars
SpecScenario == ScenarioInit /\ [][Next]_vars

\* ---- properties ----------------------------------------------------------------
AfterGenerate == pc # "generate"
AfterMovingAverage == pc \notin {"generate", "rolling"}
AfterDropNan == pc \notin {"generate", "rolling", "window", "drop"}
AfterSplit == pc \in {"loop", "reset", "create_stateless", "fit_stateless",
                      "predict_stateless", "done"}

RatioInUnit == 0 <= ratio[1] /\ ratio[1] <= ratio[2]

RECURSIVE SumSeq(_, _, _)
\* s[lo] + ... + s[hi]
SumSeq(s, lo, hi) == IF lo > hi THEN 0 ELSE s[hi] + SumSeq(s, lo, hi - 1)

\* the mean of the window samples of the generated sequence ending at
\* position p (1-based)
MeanAt(p, window) == <<SumSeq(generated, p - window + 1, p), window>>

DefinedCount(df) ==
    Cardinality({k \in 1..Shape0(df) : ~IsNaN(df.values[k][1])})

BatchMultiples ==
    /\ Len(x_train) % batch_size = 0
    /\ Len(x_test) % batch_size = 0

\* C1 as stated: for every ratio, the numbers of train inputs and of test
\* inputs split_data returns are multiples of batch_size.
C1_AnyRatio == AfterSplit => BatchMultiples

\* C1 amended: for every ratio with 0 <= ratio <= 1, the numbers of train
\* inputs and of test inputs split_data returns are multiples of batch_size.
C1_RatioInUnit == (AfterSplit /\ RatioInUnit) => BatchMultiples

\* a split where both tweaks acted: int(input_len * ratio) was no multiple of
\* batch_size, input_len is none either, and both parts are non-empty
C1_Witness ==
    /\ AfterSplit
    /\ RatioInUnit
    /\ IntOfProduct(input_len, ratio) % batch_size # 0
    /\ input_len % batch_size # 0
    /\ Len(x_train) > 0
    /\ Len(x_test) > 0

NoNaNRows(rows) ==
    \A k \in 1..Len(rows) : \A c \in 1..Len(rows[k]) : ~IsNaN(rows[k][c])

\* C2: none of x_train, y_train, x_test, y_test holds a NaN: every target is
\* a mean over tsteps samples, every input window holds lahead samples, and
\* the rows kept are those labelled max(tsteps-1, lahead-1) and later.
C2_NoUndefined ==
    /\ AfterDropNan =>
          /\ NoNaNRows(data_input.values)
          /\ NoNaNRows(expected_output.values)
          /\ \A k \in 1..Shape0(data_input) :
                data_input.index[k] >= Max(tsteps - 1, lahead - 1)
          /\ \A k \in 1..Shape0(expected_output) :
                expected_output.index[k] >= Max(tsteps - 1, lahead - 1)
    /\ AfterSplit =>
          /\ \A k \in 1..Len(x_train) :
                /\ Len(x_train[k]) = lahead
                /\ \A c \in 1..lahead : ~IsNaN(x_train[k][c][1])
          /\ \A k \in 1..Len(x_test) :
                /\ Len(x_test[k]) = lahead
                /\ \A c \in 1..lahead : ~IsNaN(x_test[k][c][1])
          /\ \A k \in 1..Len(y_train) : y_train[k][1][2] = tsteps
          /\ \A k \in 1..Len(y_test) : y_test[k][1][2] = tsteps

\* a split of windows longer than the moving average, both parts non-empty
C2_Witness ==
    /\ AfterSplit
    /\ lahead > tsteps
    /\ Len(x_train) > 0
    /\ Len(x_test) > 0
    /\ Len(y_train) > 0
    /\ Len(y_test) > 0

\* C3 as stated: in the scenario to_drop = 1, the moving average has 9
\* defined values, and the split yields 7 train and 2 test samples.
C3_AsStated ==
    /\ AfterGenerate => to_drop = 1
    /\ AfterMovingAverage => DefinedCount(expected_output) = 9
    /\ (AfterSplit /\ ratio = DefaultRatio) =>
          (Len(x_train) = 7 /\ Len(y_train) = 7 /\
           Len(x_test) = 2 /\ Len(y_test) = 2)

\* C3 amended: in the scenario to_drop = 1, 11 samples are generated, the
\* moving average has 10 defined values, and the split yields 8 train and 2
\* test samples.
C3_Scenario ==
    /\ AfterGenerate => (to_drop = 1 /\ Len(generated) = 11)
    /\ AfterMovingAverage => DefinedCount(expected_output) = 10
    /\ (AfterSplit /\ ratio = DefaultRatio) =>
          (Len(x_train) = 8 /\ Len(y_train) = 8 /\
           Len(x_test) = 2 /\ Len(y_test) = 2)

\* the scenario, run to its end
C3_Witness ==
    /\ pc = "done"
    /\ input_len = 10 /\ tsteps = 2 /\ lahead = 1 /\ batch_size = 1
    /\ ratio = DefaultRatio
    /\ Len(x_train) = 8

\* C4 as stated: with lahead = 2 and tsteps = 2 the row of raw index i is
\* [x[i-1], x[i]], older sample first, and no entry of a row is missing.
C4_OlderFirst ==
    (AfterDropNan /\ lahead = 2 /\ tsteps = 2) =>
        \A k \in 1..Shape0(data_input) :
            LET idx == data_input.index[k]
            IN /\ ~IsNaN(data_input.values[k][1])
               /\ ~IsNaN(data_input.values[k][2])
               /\ data_input.values[k] =
                     <<Num(generated[idx]), Num(generated[idx + 1])>>

\* C5: when tsteps <= n, the moving average of the n generated samples is NaN
\* at the first tsteps-1 rows and the mean of the tsteps samples ending at the
\* row everywhere else, so n - tsteps + 1 values are defined; tsteps = 2 on
\* [1,2,3,4,5] gives [1.5, 2.5, 3.5, 4.5].
C5_MovingAverage ==
    /\ (pc \in {"window", "drop"} /\ tsteps <= Len(generated)) =>
          /\ Shape0(expected_output) = Len(generated)
          /\ \A k \in 1..Len(generated) :
                /\ Len(expected_output.values[k]) = 1
                /\ expected_output.index[k] = k - 1
                /\ k <= tsteps - 1 => IsNaN(expected_output.values[k][1])
                /\ k >= tsteps =>
                      expected_output.values[k][1] = MeanAt(k, tsteps)
          /\ DefinedCount(expected_output) = Len(generated) - tsteps + 1
    /\ rolling_mean(DataFrame(<<1, 2, 3, 4, 5>>), 2).values =
          << <<NaN>>, << <<3, 2>> >>, << <<5, 2>> >>, << <<7, 2>> >>,
             << <<9, 2>> >> >>

\* a moving average over two or more samples, with undefined and defined rows
C5_Witness ==
    /\ pc = "window"
    /\ tsteps >= 2
    /\ Len(generated) > tsteps
    /\ IsNaN(expected_output.values[1][1])
    /\ ~IsNaN(expected_output.values[tsteps][1])

TestOffset == SliceBound(input_len, ToTrain(input_len, ratio, batch_size))

\* input window `row` ends at, and target `target` is the moving average at,
\* position p (1-based) of the generated sequence
AlignedAt(row, target, p) ==
    /\ \A c \in 1..lahead : row[c] = <<Num(generated[p - c + 1])>>
    /\ target = <<MeanAt(p, tsteps)>>

\* C7: train inputs and targets have the same length, test inputs and targets
\* have the same length, and the k-th window and the k-th target of each pair
\* belong to the same raw position.
C7_Aligned ==
    AfterSplit =>
        /\ Len(x_train) = Len(y_train)
        /\ Len(x_test) = Len(y_test)
        /\ \A k \in 1..Len(x_train) :
              AlignedAt(x_train[k], y_train[k], to_drop + k)
        /\ \A k \in 1..Len(x_test) :
              AlignedAt(x_test[k], y_test[k], to_drop + TestOffset + k)

\* a split with both parts non-empty, window and average of different lengths
C7_Witness ==
    /\ AfterSplit
    /\ tsteps # lahead
    /\ Len(x_train) > 0
    /\ Len(x_test) > 0

\* C8: input_len + max(tsteps-1, lahead-1) samples are generated, and after
\* the drop input and target have input_len rows each with the same labels,
\* so split_data is given as many rows as the input_len it computes with.
C8_InputLenRows ==
    /\ AfterGenerate =>
          Len(generated) = input_len + Max(tsteps - 1, lahead - 1)
    /\ AfterDropNan =>
          /\ Shape0(data_input) = input_len
          /\ Shape0(expected_output) = input_len
          /\ data_input.index = expected_output.index
          /\ \A k \in 1..input_len :
                data_input.index[k] = Max(tsteps - 1, lahead - 1) + k - 1

\* split_data is about to run on data from which rows were dropped
C8_Witness ==
    /\ pc = "split"
    /\ input_len > 0
    /\ to_drop > 0
    /\ Len(generated) > input_len

\* rows lo..hi (1-based) of the preprocessed input and target, reshaped
InputRows(lo, hi) == SubSeq(reshape_3(data_input), lo, hi)
TargetRows(lo, hi) == SubSeq(reshape_2(expected_output), lo, hi)

\* C9: for 0 <= ratio <= 1, train is the first to_train rows, to_train being
\* floor(input_len * ratio) rounded down to a multiple of batch_size, and test
\* is the rows after them less the last input_len mod batch_size rows.
C9_Split ==
    (AfterSplit /\ RatioInUnit) =>
        LET floor == (input_len * ratio[1]) \div ratio[2]
            to_train == batch_size * (floor \div batch_size)
            tail == input_len % batch_size
        IN /\ x_train = InputRows(1, to_train)
           /\ y_train = TargetRows(1, to_train)
           /\ x_test = InputRows(to_train + 1, input_len - tail)
           /\ y_test = TargetRows(to_train + 1, input_len - tail)
           /\ input_len - Len(x_train) - Len(x_test) = tail
           /\ tail <= batch_size - 1
           /\ tail = 0 => x_test = InputRows(to_train + 1, input_len)
           /\ x_train \o x_test = InputRows(1, input_len - tail)

\* a split of batches of two or more with no partial batch: nothing is cut
\* from the test rows
C9_Witness ==
    /\ AfterSplit
    /\ RatioInUnit
    /\ batch_size > 1
    /\ input_len % batch_size = 0
    /\ Len(x_train) > 0
    /\ Len(x_test) > 0

Count(s, e) == Cardinality({k \in 1..Len(s) : s[k] = e})

\* C10: fits and resets of the stateful model alternate, predict comes after
\* the reset of the last of the epochs fits, and the stateless model is
\* created, fitted and used only after that predict and is never reset.
C10_CallOrder ==
    /\ \A k \in 1..Len(calls) :
          /\ calls[k] = <<"stateful", "fit">> =>
                (k < Len(calls) => calls[k + 1] = <<"stateful", "reset_states">>)
          /\ calls[k] = <<"stateful", "reset_states">> =>
                (k > 1 /\ calls[k - 1] = <<"stateful", "fit">>)
          /\ calls[k] = <<"stateful", "predict">> =>
                /\ Count(SubSeq(calls, 1, k - 1), <<"stateful", "fit">>) = epochs
                /\ Count(SubSeq(calls, 1, k - 1),
                         <<"stateful", "reset_states">>) = epochs
                /\ epochs > 0 => calls[k - 1] = <<"stateful", "reset_states">>
          /\ calls[k][1] = "stateless" =>
                /\ calls[k][2] # "reset_states"
                /\ \E m \in 1..(k - 1) : calls[m] = <<"stateful", "predict">>
    /\ pc = "loop" => ~model_stateful.state
    /\ pc \notin {"loop", "reset"} /\ AfterSplit =>
          Count(calls, <<"stateful", "predict">>) = 1
    /\ pc = "done" =>
          /\ Count(calls, <<"stateful", "fit">>) = epochs
          /\ Count(calls, <<"stateful", "reset_states">>) = epochs
          /\ model_stateful.fits = epochs
          /\ calls[Len(calls) - 2] = <<"stateless", "create">>
          /\ calls[Len(calls) - 1] = <<"stateless", "fit">>
          /\ calls[Len(calls)] = <<"stateless", "predict">>

\* the script has ended after two or more epochs
C10_Witness ==
    /\ pc = "done"
    /\ epochs >= 2
    /\ Len(predicted_stateless) > 0

====
